---- MODULE Spec2Model ----
(***************************************************************************)
(* A model of in-vite: the resolution of a Vite build manifest into the    *)
(* HTML tags of an entrypoint (manifest.rs, resource.rs) and the facade    *)
(* that dispatches on the mode (vite.rs).                                  *)
(*                                                                         *)
(* A Rust String / &str is a sequence of one-character strings, so that    *)
(* comparison, suffix tests, formatting and joining are computed on the    *)
(* characters, as the code computes them.                                  *)
(***************************************************************************)
EXTENDS Integers, Sequences, FiniteSets, Bags, TLC

VARIABLES
    manifest,   \* the Manifest a resolve_resources call works on
    disk,       \* the file system: what is found at each manifest path
    vite,       \* the Vite value: host, manifest_source, manifest_path, mode
    last,       \* the last operation: its name, its input, its outcome
    env         \* the environment variables of the process

vars == <<manifest, disk, vite, last, env>>

-----------------------------------------------------------------------------
(* Strings                                                                 *)

\* The printable ASCII characters in byte order: 32 (space) to 95 (_), and
\* 97 (a) to 126 (~). Byte 96 has no string literal and is left out.
AsciiLow ==
    <<" ", "!", "\"", "#", "$", "%", "&", "'", "(", ")", "*", "+", ",", "-",
      ".", "/", "0", "1", "2", "3", "4", "5", "6", "7", "8", "9", ":", ";",
      "<", "=", ">", "?", "@", "A", "B", "C", "D", "E", "F", "G", "H", "I",
      "J", "K", "L", "M", "N", "O", "P", "Q", "R", "S", "T", "U", "V", "W",
      "X", "Y", "Z", "[", "\\", "]", "^", "_">>

AsciiHigh ==
    <<"a", "b", "c", "d", "e", "f", "g", "h", "i", "j", "k", "l", "m", "n",
      "o", "p", "q", "r", "s", "t", "u", "v", "w", "x", "y", "z", "{", "|",
      "}", "~">>

Newline == "\n"

Chars ==
    {AsciiLow[i] : i \in 1..Len(AsciiLow)}
        \cup {AsciiHigh[i] : i \in 1..Len(AsciiHigh)} \cup {Newline}

\* The byte of a character: str comparison in Rust is by bytes.
Byte == [c \in Chars |->
            IF c = Newline THEN 10
            ELSE IF \E i \in 1..Len(AsciiLow) : AsciiLow[i] = c
                 THEN 31 + (CHOOSE i \in 1..Len(AsciiLow) : AsciiLow[i] = c)
                 ELSE 96 + (CHOOSE i \in 1..Len(AsciiHigh) : AsciiHigh[i] = c)]

\* a < b for str: lexicographic by bytes, a proper prefix is smaller.
RECURSIVE StrLess(_, _)
StrLess(a, b) ==
    IF b = <<>> THEN FALSE
    ELSE IF a = <<>> THEN TRUE
    ELSE IF a[1] = b[1] THEN StrLess(Tail(a), Tail(b))
    ELSE Byte[a[1]] < Byte[b[1]]

\* str::ends_with
ends_with(s, suffix) ==
    /\ Len(suffix) <= Len(s)
    /\ SubSeq(s, Len(s) - Len(suffix) + 1, Len(s)) = suffix

\* [String]::join(sep)
RECURSIVE join(_, _)
join(lines, sep) ==
    IF lines = <<>> THEN <<>>
    ELSE IF Len(lines) = 1 THEN lines[1]
    ELSE lines[1] \o sep \o join(Tail(lines), sep)

-----------------------------------------------------------------------------
(* resource.rs                                                             *)

Stylesheet(uri)    == [variant |-> "Stylesheet", uri |-> uri]
Module(uri)        == [variant |-> "Module", uri |-> uri]
PreloadModule(uri) == [variant |-> "PreloadModule", uri |-> uri]

\* The discriminant of a variant: its position in the enum's declaration.
Discriminant(r) ==
    CASE r.variant = "Stylesheet"    -> 0
      [] r.variant = "Module"        -> 1
      [] r.variant = "PreloadModule" -> 2

\* #[derive(PartialOrd, Ord)]: by discriminant, then by the wrapped str.
ResourceLess(r, s) ==
    \/ Discriminant(r) < Discriminant(s)
    \/ /\ Discriminant(r) = Discriminant(s)
       /\ StrLess(r.uri, s.uri)

\* Vec::sort, a stable sort: each element goes behind the elements that are
\* not greater than it.
RECURSIVE SortInsert(_, _)
SortInsert(sorted, x) ==
    IF sorted = <<>> THEN <<x>>
    ELSE IF ResourceLess(x, sorted[1]) THEN <<x>> \o sorted
    ELSE <<sorted[1]>> \o SortInsert(Tail(sorted), x)

RECURSIVE SortFrom(_, _)
SortFrom(sorted, rest) ==
    IF rest = <<>> THEN sorted
    ELSE SortFrom(SortInsert(sorted, rest[1]), Tail(rest))

sort(v) == SortFrom(<<>>, v)

\* The pieces of the three templates of Resource::to_html around {uri}.
\*   <link rel="stylesheet" href="
StylesheetOpen ==
    <<"<", "l", "i", "n", "k", " ", "r", "e", "l", "=", "\"", "s", "t",
      "y", "l", "e", "s", "h", "e", "e", "t", "\"", " ", "h", "r", "e",
      "f", "=", "\"">>
\*   " />
LinkClose == <<"\"", " ", "/", ">">>
\*   <script type="module" src="
ScriptOpen ==
    <<"<", "s", "c", "r", "i", "p", "t", " ", "t", "y", "p", "e", "=",
      "\"", "m", "o", "d", "u", "l", "e", "\"", " ", "s", "r", "c", "=",
      "\"">>
\*   "></script>
ScriptClose ==
    <<"\"", ">", "<", "/", "s", "c", "r", "i", "p", "t", ">">>
\*   <link rel="modulepreload" href="
PreloadOpen ==
    <<"<", "l", "i", "n", "k", " ", "r", "e", "l", "=", "\"", "m", "o",
      "d", "u", "l", "e", "p", "r", "e", "l", "o", "a", "d", "\"", " ",
      "h", "r", "e", "f", "=", "\"">>

\* to_html escaping the uri for an attribute value: &, < and the double
\* quote become character references.
resource_to_html_escaped(r) ==
    LET RECURSIVE Escape(_)
        Escape(uri) ==
            IF uri = <<>> THEN <<>>
            ELSE (CASE uri[1] = "&"  -> <<"&", "a", "m", "p", ";">>
                    [] uri[1] = "<"  -> <<"&", "l", "t", ";">>
                    [] uri[1] = "\"" -> <<"&", "q", "u", "o", "t", ";">>
                    [] OTHER         -> <<uri[1]>>) \o Escape(Tail(uri))
    IN  CASE r.variant = "Stylesheet"    ->
                StylesheetOpen \o Escape(r.uri) \o LinkClose
          [] r.variant = "Module"        ->
                ScriptOpen \o Escape(r.uri) \o ScriptClose
          [] r.variant = "PreloadModule" ->
                PreloadOpen \o Escape(r.uri) \o LinkClose

\* Resource::to_html: format! puts uri between the pieces as it is.
resource_to_html(r) ==
    CASE r.variant = "Stylesheet"    -> StylesheetOpen \o r.uri \o LinkClose
      [] r.variant = "Module"        -> ScriptOpen \o r.uri \o ScriptClose
      [] r.variant = "PreloadModule" -> PreloadOpen \o r.uri \o LinkClose

-----------------------------------------------------------------------------
(* manifest.rs                                                             *)

None    == [some |-> FALSE]
Some(x) == [some |-> TRUE, value |-> x]

\* HashMap::get on Manifest.0. A HashMap is its entries and the order in
\* which iter() would yield its keys, which varies from one map to the next.
get(self, key) ==
    IF key \in DOMAIN self.entries THEN Some(self.entries[key]) ELSE None

\* The nested calls of resolve_imports the stack has room for; one more
\* overflows it and the process is aborted.
MaxStack == 4

\* What a call leaves behind: the resources it returns (or has pushed so
\* far), or the abort of the process by the overflow of its stack.
Returned(resources) == [aborted |-> FALSE, resources |-> resources]
StackOverflow       == [aborted |-> TRUE, resources |-> <<>>]

DotCss == <<".", "c", "s", "s">>
DotJs  == <<".", "j", "s">>
DotJsx == <<".", "j", "s", "x">>
DotTs  == <<".", "t", "s">>
DotTsx == <<".", "t", "s", "x">>

RECURSIVE resolve_imports(_, _, _, _, _)
RECURSIVE resolve_imports_loop(_, _, _, _)

\* resolve_imports pushing a resource only when resources does not hold it
\* yet: a walk that deduplicates what it collects.
resolve_imports_dedup(self, resources, key, chunk, depth) ==
    IF depth > MaxStack THEN StackOverflow
    ELSE
    LET PushNew(v, x) ==
            IF \E i \in 1..Len(v) : v[i] = x THEN v ELSE Append(v, x)
        RECURSIVE PushCss(_, _)
        PushCss(v, css) ==
            IF css = <<>> THEN v
            ELSE PushCss(PushNew(v, Stylesheet(css[1])), Tail(css))
        walked ==
            resolve_imports_loop(self, PushCss(resources, chunk.css),
                                 chunk.imports, depth)
        with_imports == walked.resources
    IN  IF walked.aborted THEN StackOverflow
        ELSE IF ~chunk.is_entry
            THEN Returned(PushNew(with_imports, PreloadModule(chunk.file)))
        ELSE IF ends_with(key, DotCss)
            THEN Returned(PushNew(with_imports, Stylesheet(chunk.file)))
        ELSE IF \/ ends_with(key, DotJs) \/ ends_with(key, DotJsx)
                \/ ends_with(key, DotTs) \/ ends_with(key, DotTsx)
            THEN Returned(PushNew(with_imports, Module(chunk.file)))
        ELSE Returned(with_imports)

\* The loop over chunk.imports leaving at a key the manifest lacks: break
\* in the place of continue.
resolve_imports_loop_break(self, resources, imports, depth) ==
    IF imports = <<>> THEN Returned(resources)
    ELSE LET found == get(self, imports[1])
         IN  IF ~found.some THEN Returned(resources)
             ELSE LET after == resolve_imports(self, resources, imports[1],
                                               found.value, depth + 1)
                  IN  IF after.aborted THEN StackOverflow
                      ELSE resolve_imports_loop(self, after.resources,
                                                Tail(imports), depth)

\* The loop over chunk.imports, lines 81-87: a key the manifest lacks is
\* skipped, any other is walked with the same resources.
resolve_imports_loop(self, resources, imports, depth) ==
    IF imports = <<>> THEN Returned(resources)
    ELSE LET found == get(self, imports[1])
             after == IF ~found.some THEN Returned(resources)
                      ELSE resolve_imports(self, resources, imports[1],
                                           found.value, depth + 1)
         IN  IF after.aborted THEN StackOverflow
             ELSE resolve_imports_loop(self, after.resources, Tail(imports),
                                       depth)

\* resolve_imports with a bound on its depth: below MaxStack frames it
\* walks no further and returns what it has.
resolve_imports_bounded(self, resources, key, chunk, depth) ==
    IF depth > MaxStack THEN Returned(resources)
    ELSE
    LET with_css ==
            resources \o [i \in 1..Len(chunk.css) |-> Stylesheet(chunk.css[i])]
        walked ==
            resolve_imports_loop(self, with_css, chunk.imports, depth)
        with_imports == walked.resources
    IN  IF walked.aborted THEN StackOverflow
        ELSE IF ~chunk.is_entry
            THEN Returned(Append(with_imports, PreloadModule(chunk.file)))
        ELSE IF ends_with(key, DotCss)
            THEN Returned(Append(with_imports, Stylesheet(chunk.file)))
        ELSE IF \/ ends_with(key, DotJs) \/ ends_with(key, DotJsx)
                \/ ends_with(key, DotTs) \/ ends_with(key, DotTsx)
            THEN Returned(Append(with_imports, Module(chunk.file)))
        ELSE Returned(with_imports)

\* resolve_imports testing the suffix of the key before is_entry: a chunk
\* that is no entry gets the Stylesheet or Module of its key's suffix.
resolve_imports_suffix_first(self, resources, key, chunk, depth) ==
    IF depth > MaxStack THEN StackOverflow
    ELSE
    LET with_css ==
            resources \o [i \in 1..Len(chunk.css) |-> Stylesheet(chunk.css[i])]
        walked ==
            resolve_imports_loop(self, with_css, chunk.imports, depth)
        with_imports == walked.resources
    IN  IF walked.aborted THEN StackOverflow
        ELSE IF ends_with(key, DotCss)
            THEN Returned(Append(with_imports, Stylesheet(chunk.file)))
        ELSE IF \/ ends_with(key, DotJs) \/ ends_with(key, DotJsx)
                \/ ends_with(key, DotTs) \/ ends_with(key, DotTsx)
            THEN Returned(Append(with_imports, Module(chunk.file)))
        ELSE IF ~chunk.is_entry
            THEN Returned(Append(with_imports, PreloadModule(chunk.file)))
        ELSE Returned(with_imports)

\* resolve_imports testing the suffix of chunk.file, not of the key.
resolve_imports_by_file(self, resources, key, chunk, depth) ==
    IF depth > MaxStack THEN StackOverflow
    ELSE
    LET with_css ==
            resources \o [i \in 1..Len(chunk.css) |-> Stylesheet(chunk.css[i])]
        walked ==
            resolve_imports_loop(self, with_css, chunk.imports, depth)
        with_imports == walked.resources
    IN  IF walked.aborted THEN StackOverflow
        ELSE IF ~chunk.is_entry
            THEN Returned(Append(with_imports, PreloadModule(chunk.file)))
        ELSE IF ends_with(chunk.file, DotCss)
            THEN Returned(Append(with_imports, Stylesheet(chunk.file)))
        ELSE IF \/ ends_with(chunk.file, DotJs) \/ ends_with(chunk.file, DotJsx)
                \/ ends_with(chunk.file, DotTs) \/ ends_with(chunk.file, DotTsx)
            THEN Returned(Append(with_imports, Module(chunk.file)))
        ELSE Returned(with_imports)

\* resolve_imports(&self, resources, key, chunk), as the frame number depth
\* of the recursion; its value is resources as the call leaves it.
resolve_imports(self, resources, key, chunk, depth) ==
    IF depth > MaxStack THEN StackOverflow
    ELSE
    LET with_css ==
            resources \o [i \in 1..Len(chunk.css) |-> Stylesheet(chunk.css[i])]
        walked ==
            resolve_imports_loop(self, with_css, chunk.imports, depth)
        with_imports == walked.resources
    IN  IF walked.aborted THEN StackOverflow
        ELSE IF ~chunk.is_entry
            THEN Returned(Append(with_imports, PreloadModule(chunk.file)))
        ELSE IF ends_with(key, DotCss)
            THEN Returned(Append(with_imports, Stylesheet(chunk.file)))
        ELSE IF \/ ends_with(key, DotJs) \/ ends_with(key, DotJsx)
                \/ ends_with(key, DotTs) \/ ends_with(key, DotTsx)
            THEN Returned(Append(with_imports, Module(chunk.file)))
        ELSE Returned(with_imports)

\* resolve_resources without the test of lines 54-56: any chunk found is a
\* root of the walk.
resolve_resources_any_root(self, entrypoint) ==
    LET found == get(self, entrypoint)
    IN  IF ~found.some THEN Returned(<<>>)
        ELSE LET walked ==
                     resolve_imports(self, <<>>, entrypoint, found.value, 1)
             IN  IF walked.aborted THEN StackOverflow
                 ELSE Returned(sort(walked.resources))

\* resolve_resources without the sort of line 65: the resources are returned
\* in the order of the walk.
resolve_resources_unsorted(self, entrypoint) ==
    LET found == get(self, entrypoint)
    IN  IF ~found.some THEN Returned(<<>>)
        ELSE IF ~found.value.is_entry THEN Returned(<<>>)
        ELSE resolve_imports(self, <<>>, entrypoint, found.value, 1)

\* resolve_resources collecting the stylesheets of the chunks as a loop over
\* the map yields them, for (key, chunk) in self.0.iter(), and not sorting.
resolve_resources_scan(self, entrypoint) ==
    LET found == get(self, entrypoint)
        RECURSIVE Scan(_)
        Scan(keys) ==
            IF keys = <<>> THEN <<>>
            ELSE [i \in 1..Len(self.entries[keys[1]].css) |->
                        Stylesheet(self.entries[keys[1]].css[i])]
                    \o <<PreloadModule(self.entries[keys[1]].file)>>
                    \o Scan(Tail(keys))
    IN  IF ~found.some THEN Returned(<<>>)
        ELSE IF ~found.value.is_entry THEN Returned(<<>>)
        ELSE Returned(Scan(self.order))

\* resolve_resources walking before it tests is_entry: the walk of a chunk
\* that is no entry is made and then dropped.
resolve_resources_walk_first(self, entrypoint) ==
    LET found == get(self, entrypoint)
    IN  IF ~found.some THEN Returned(<<>>)
        ELSE LET walked ==
                     resolve_imports(self, <<>>, entrypoint, found.value, 1)
             IN  IF walked.aborted THEN StackOverflow
                 ELSE IF ~found.value.is_entry THEN Returned(<<>>)
                 ELSE Returned(sort(walked.resources))

\* Manifest::resolve_resources
resolve_resources(self, entrypoint) ==
    LET found == get(self, entrypoint)
    IN  IF ~found.some THEN Returned(<<>>)
        ELSE IF ~found.value.is_entry THEN Returned(<<>>)
        ELSE LET walked ==
                     resolve_imports(self, <<>>, entrypoint, found.value, 1)
             IN  IF walked.aborted THEN StackOverflow
                 ELSE Returned(sort(walked.resources))

-----------------------------------------------------------------------------
(* The manifest as JSON and its deserialization (manifest.rs, lines 14-45) *)

\* A JSON document is the value its text denotes; NotJson stands for a text
\* that denotes none. The members of an object are kept in the order of the
\* text, each a pair of its name and its value.
JNull            == [t |-> "null", v |-> <<>>]
JBool(b)         == [t |-> "bool", v |-> b]
JString(s)       == [t |-> "string", v |-> s]
JArray(items)    == [t |-> "array", v |-> items]
JObject(members) == [t |-> "object", v |-> members]
NotJson          == [t |-> "no json", v |-> <<>>]

Ok(x)  == [ok |-> TRUE, value |-> x, error |-> "none"]
Err(e) == [ok |-> FALSE, value |-> <<>>, error |-> e]

\* String
de_string(j) == IF j.t = "string" THEN Ok(j.v) ELSE Err("Json")

\* Option<String>
de_option_string(j) ==
    IF j.t = "null" THEN Ok(None)
    ELSE IF j.t = "string" THEN Ok(Some(j.v)) ELSE Err("Json")

\* bool
de_bool(j) == IF j.t = "bool" THEN Ok(j.v) ELSE Err("Json")

\* Vec<String>
de_vec_string(j) ==
    IF j.t = "array" /\ \A i \in 1..Len(j.v) : j.v[i].t = "string"
    THEN Ok([i \in 1..Len(j.v) |-> j.v[i].v])
    ELSE Err("Json")

\* Deserialize for the type of a field.
deserialize(type, j) ==
    CASE type = "String"         -> de_string(j)
      [] type = "Option<String>" -> de_option_string(j)
      [] type = "bool"           -> de_bool(j)
      [] type = "Vec<String>"    -> de_vec_string(j)

\* One field of the derived Deserialize of a struct: a member of that name
\* given twice is an error, one given once is deserialized, one not given
\* takes missing, the #[serde(default)] or the error of a required field.
de_field(j, name, type, missing) ==
    LET at == {i \in 1..Len(j.v) : j.v[i][1] = name}
    IN  IF at = {} THEN missing
        ELSE IF Cardinality(at) > 1 THEN Err("Json")
        ELSE deserialize(type, j.v[CHOOSE i \in at : TRUE][2])

\* Chunk, #[serde(rename_all = "camelCase")]: the members are looked up by
\* their camelCase names, a member of another name is ignored, file alone
\* is required. (No document of the model writes a chunk as an array.)
de_chunk(j) ==
    IF j.t # "object" THEN Err("Json")
    ELSE
    LET src      == de_field(j, "src", "Option<String>", Ok(None))
        file     == de_field(j, "file", "String", Err("Json"))
        css      == de_field(j, "css", "Vec<String>", Ok(<<>>))
        assets   == de_field(j, "assets", "Vec<String>", Ok(<<>>))
        is_entry == de_field(j, "isEntry", "bool", Ok(FALSE))
        is_dynamic_entry ==
                    de_field(j, "isDynamicEntry", "bool", Ok(FALSE))
        imports  == de_field(j, "imports", "Vec<String>", Ok(<<>>))
        dynamic_imports ==
                    de_field(j, "dynamicImports", "Vec<String>", Ok(<<>>))
    IN  IF /\ src.ok /\ file.ok /\ css.ok /\ assets.ok /\ is_entry.ok
           /\ is_dynamic_entry.ok /\ imports.ok /\ dynamic_imports.ok
        THEN Ok([src |-> src.value, file |-> file.value, css |-> css.value,
                 assets |-> assets.value, is_entry |-> is_entry.value,
                 is_dynamic_entry |-> is_dynamic_entry.value,
                 imports |-> imports.value,
                 dynamic_imports |-> dynamic_imports.value])
        ELSE Err("Json")

\* The keys of the top-level object of a document.
DocKeys(j) ==
    IF j.t = "object" THEN {j.v[i][1] : i \in 1..Len(j.v)} ELSE {}

\* Manifest, #[serde(transparent)] over HashMap<String, Chunk>:
\* serde_json::from_str. Every member must be a Chunk; of two members with
\* one key the later one stays in the map. order is the order in which the
\* new map, with its own RandomState, would yield its keys.
from_str(j, order) ==
    IF j.t # "object" THEN Err("Json")
    ELSE IF \E i \in 1..Len(j.v) : ~de_chunk(j.v[i][2]).ok THEN Err("Json")
    ELSE
    LET last_of(key) ==
            CHOOSE i \in 1..Len(j.v) :
                /\ j.v[i][1] = key
                /\ \A k \in (i + 1)..Len(j.v) : j.v[k][1] # key
    IN  Ok([entries |->
                [key \in DocKeys(j) |-> de_chunk(j.v[last_of(key)][2]).value],
            order |-> order])

-----------------------------------------------------------------------------
(* The file system                                                         *)

Absent        == [kind |-> "absent", content |-> NotJson]
Denied        == [kind |-> "denied", content |-> NotJson]
Directory     == [kind |-> "directory", content |-> NotJson]
File(content) == [kind |-> "file", content |-> content]

\* std::fs::File::open: a path that names nothing, or something this
\* process may not read, is an io::Error; a directory opens like a file.
open(fs, path) ==
    IF fs[path].kind \in {"absent", "denied"} THEN Err("Io")
    ELSE Ok(fs[path])

\* serde_json::from_reader: the read of a directory fails, and the failure
\* comes back as a serde_json::Error, like that of a text that is no
\* manifest.
from_reader(file, order) ==
    IF file.kind = "directory" THEN Err("Json")
    ELSE from_str(file.content, order)

-----------------------------------------------------------------------------
(* vite.rs                                                                 *)

\*   /@vite/client
ViteClient ==
    <<"/", "@", "v", "i", "t", "e", "/", "c", "l", "i", "e", "n", "t">>

\* What a call of to_html or react_refresh leaves behind.
Outcome(op, entrypoints, outcome, error, html, opens, parses) ==
    [op |-> op, entrypoints |-> entrypoints, outcome |-> outcome,
     error |-> error, resources |-> <<>>, html |-> html,
     opens |-> opens, parses |-> parses]

\* to_development_html with one fixed module tag, /@vite/main.js, whatever
\* the entrypoints are, as make_development_html of lib.rs (lines 80-88).
to_development_html_main(self, entrypoints) ==
    LET host == self.host
    IN  join(<< ScriptOpen \o host \o ViteClient \o ScriptClose,
                ScriptOpen \o host
                    \o <<"/", "@", "v", "i", "t", "e", "/", "m", "a", "i", "n",
                         ".", "j", "s">> \o ScriptClose >>,
             <<Newline>>)

\* Vite::to_development_html
to_development_html(self, entrypoints) ==
    LET host  == self.host
        lines == <<ScriptOpen \o host \o ViteClient \o ScriptClose>>
                    \o [i \in 1..Len(entrypoints) |->
                            ScriptOpen \o host \o <<"/">> \o entrypoints[i]
                                \o ScriptClose]
    IN  join(lines, <<Newline>>)

\* entrypoints.iter().map(resolve_resources).flatten().collect(), lines
\* 139-143: the lists of the entrypoints one after the other, or the abort
\* of the first call that overflows the stack.
RECURSIVE resolve_all(_, _)
resolve_all(manifest_, entrypoints) ==
    IF entrypoints = <<>> THEN Returned(<<>>)
    ELSE LET first == resolve_resources(manifest_, entrypoints[1])
             rest  == resolve_all(manifest_, Tail(entrypoints))
         IN  IF first.aborted \/ rest.aborted THEN StackOverflow
             ELSE Returned(first.resources \o rest.resources)

\* to_html rendering every resource once: the resources of the entrypoints
\* are deduplicated before they are sorted.
to_html_dedup(self, entrypoints, fs, order) ==
    IF self.mode = "Development"
    THEN Outcome("to_html", entrypoints, "Ok", "none",
                 to_development_html(self, entrypoints), 0, 0)
    ELSE
    LET file   == open(fs, self.manifest_path)
        parsed == IF self.manifest_source.some
                  THEN from_str(self.manifest_source.value, order)
                  ELSE IF file.ok THEN from_reader(file.value, order)
                  ELSE Err("Io")
        opens  == IF self.manifest_source.some THEN 0 ELSE 1
        parses == IF self.manifest_source.some \/ file.ok THEN 1 ELSE 0
        resources == resolve_all(parsed.value, entrypoints)
        RECURSIVE Dedup(_)
        Dedup(v) ==
            IF v = <<>> THEN <<>>
            ELSE IF \E i \in 2..Len(v) : v[i] = v[1] THEN Dedup(Tail(v))
            ELSE <<v[1]>> \o Dedup(Tail(v))
        sorted == sort(Dedup(resources.resources))
        html   == join([i \in 1..Len(sorted) |-> resource_to_html(sorted[i])],
                       <<Newline>>)
    IN  IF ~parsed.ok
        THEN Outcome("to_html", entrypoints, "Err", parsed.error, <<>>,
                     opens, parses)
        ELSE IF resources.aborted
        THEN Outcome("to_html", entrypoints, "aborted", "none", <<>>,
                     opens, parses)
        ELSE Outcome("to_html", entrypoints, "Ok", "none", html,
                     opens, parses)

\* to_html loading the manifest before it looks at the mode.
to_html_load_first(self, entrypoints, fs, order) ==
    LET file   == open(fs, self.manifest_path)
        parsed == IF self.manifest_source.some
                  THEN from_str(self.manifest_source.value, order)
                  ELSE IF file.ok THEN from_reader(file.value, order)
                  ELSE Err("Io")
        opens  == IF self.manifest_source.some THEN 0 ELSE 1
        parses == IF self.manifest_source.some \/ file.ok THEN 1 ELSE 0
        resources == resolve_all(parsed.value, entrypoints)
        sorted == sort(resources.resources)
        html   == join([i \in 1..Len(sorted) |-> resource_to_html(sorted[i])],
                       <<Newline>>)
    IN  IF ~parsed.ok
        THEN Outcome("to_html", entrypoints, "Err", parsed.error, <<>>,
                     opens, parses)
        ELSE IF self.mode = "Development"
        THEN Outcome("to_html", entrypoints, "Ok", "none",
                     to_development_html(self, entrypoints), opens, parses)
        ELSE IF resources.aborted
        THEN Outcome("to_html", entrypoints, "aborted", "none", <<>>,
                     opens, parses)
        ELSE Outcome("to_html", entrypoints, "Ok", "none", html,
                     opens, parses)

\* to_html opening dist/.vite/manifest.json whatever manifest_path is, as
\* make_html of lib.rs did (line 102).
to_html_fixed_path(self, entrypoints, fs, order) ==
    IF self.mode = "Development"
    THEN Outcome("to_html", entrypoints, "Ok", "none",
                 to_development_html(self, entrypoints), 0, 0)
    ELSE
    LET file   == open(fs, "dist/.vite/manifest.json")
        parsed == IF self.manifest_source.some
                  THEN from_str(self.manifest_source.value, order)
                  ELSE IF file.ok THEN from_reader(file.value, order)
                  ELSE Err("Io")
        opens  == IF self.manifest_source.some THEN 0 ELSE 1
        parses == IF self.manifest_source.some \/ file.ok THEN 1 ELSE 0
        resources == resolve_all(parsed.value, entrypoints)
        sorted == sort(resources.resources)
        html   == join([i \in 1..Len(sorted) |-> resource_to_html(sorted[i])],
                       <<Newline>>)
    IN  IF ~parsed.ok
        THEN Outcome("to_html", entrypoints, "Err", parsed.error, <<>>,
                     opens, parses)
        ELSE IF resources.aborted
        THEN Outcome("to_html", entrypoints, "aborted", "none", <<>>,
                     opens, parses)
        ELSE Outcome("to_html", entrypoints, "Ok", "none", html,
                     opens, parses)

\* to_html without the sort of line 145: the resources are rendered in the
\* order in which the entrypoints gave them.
to_html_unsorted(self, entrypoints, fs, order) ==
    IF self.mode = "Development"
    THEN Outcome("to_html", entrypoints, "Ok", "none",
                 to_development_html(self, entrypoints), 0, 0)
    ELSE
    LET file   == open(fs, self.manifest_path)
        parsed == IF self.manifest_source.some
                  THEN from_str(self.manifest_source.value, order)
                  ELSE IF file.ok THEN from_reader(file.value, order)
                  ELSE Err("Io")
        opens  == IF self.manifest_source.some THEN 0 ELSE 1
        parses == IF self.manifest_source.some \/ file.ok THEN 1 ELSE 0
        resources == resolve_all(parsed.value, entrypoints)
        unsorted == resources.resources
        html   == join([i \in 1..Len(unsorted) |->
                            resource_to_html(unsorted[i])],
                       <<Newline>>)
    IN  IF ~parsed.ok
        THEN Outcome("to_html", entrypoints, "Err", parsed.error, <<>>,
                     opens, parses)
        ELSE IF resources.aborted
        THEN Outcome("to_html", entrypoints, "aborted", "none", <<>>,
                     opens, parses)
        ELSE Outcome("to_html", entrypoints, "Ok", "none", html,
                     opens, parses)

\* Vite::to_html, with the file system it reads and the order of the keys
\* of the map it builds.
to_html(self, entrypoints, fs, order) ==
    IF self.mode = "Development"
    THEN Outcome("to_html", entrypoints, "Ok", "none",
                 to_development_html(self, entrypoints), 0, 0)
    ELSE
    LET file   == open(fs, self.manifest_path)
        parsed == IF self.manifest_source.some
                  THEN from_str(self.manifest_source.value, order)
                  ELSE IF file.ok THEN from_reader(file.value, order)
                  ELSE Err("Io")
        opens  == IF self.manifest_source.some THEN 0 ELSE 1
        parses == IF self.manifest_source.some \/ file.ok THEN 1 ELSE 0
        resources == resolve_all(parsed.value, entrypoints)
        sorted == sort(resources.resources)
        html   == join([i \in 1..Len(sorted) |-> resource_to_html(sorted[i])],
                       <<Newline>>)
    IN  IF ~parsed.ok
        THEN Outcome("to_html", entrypoints, "Err", parsed.error, <<>>,
                     opens, parses)
        ELSE IF resources.aborted
        THEN Outcome("to_html", entrypoints, "aborted", "none", <<>>,
                     opens, parses)
        ELSE Outcome("to_html", entrypoints, "Ok", "none", html,
                     opens, parses)

\* The script block of react_refresh around {host}; format! writes {{}} as
\* {}.
\*   <script type="module">
\*   import RefreshRuntime from "
RefreshOpen ==
    <<"<", "s", "c", "r", "i", "p", "t", " ", "t", "y", "p", "e", "=",
      "\"", "m", "o", "d", "u", "l", "e", "\"", ">", "\n", "i", "m", "p",
      "o", "r", "t", " ", "R", "e", "f", "r", "e", "s", "h", "R", "u", "n",
      "t", "i", "m", "e", " ", "f", "r", "o", "m", " ", "\"">>
\*   /@react-refresh"
\*   RefreshRuntime.injectIntoGlobalHook(window)
\*   window.$RefreshReg$ = () => {}
\*   window.$RefreshSig$ = () => (type) => type
\*   window.__vite_plugin_react_preamble_installed__ = true
\*   </script>
RefreshClose ==
    <<"/", "@", "r", "e", "a", "c", "t", "-", "r", "e", "f", "r", "e", "s",
      "h", "\"", "\n", "R", "e", "f", "r", "e", "s", "h", "R", "u", "n",
      "t", "i", "m", "e", ".", "i", "n", "j", "e", "c", "t", "I", "n", "t",
      "o", "G", "l", "o", "b", "a", "l", "H", "o", "o", "k", "(", "w", "i",
      "n", "d", "o", "w", ")", "\n", "w", "i", "n", "d", "o", "w", ".",
      "$", "R", "e", "f", "r", "e", "s", "h", "R", "e", "g", "$", " ", "=",
      " ", "(", ")", " ", "=", ">", " ", "{", "}", "\n", "w", "i", "n",
      "d", "o", "w", ".", "$", "R", "e", "f", "r", "e", "s", "h", "S", "i",
      "g", "$", " ", "=", " ", "(", ")", " ", "=", ">", " ", "(", "t", "y",
      "p", "e", ")", " ", "=", ">", " ", "t", "y", "p", "e", "\n", "w",
      "i", "n", "d", "o", "w", ".", "_", "_", "v", "i", "t", "e", "_", "p",
      "l", "u", "g", "i", "n", "_", "r", "e", "a", "c", "t", "_", "p", "r",
      "e", "a", "m", "b", "l", "e", "_", "i", "n", "s", "t", "a", "l", "l",
      "e", "d", "_", "_", " ", "=", " ", "t", "r", "u", "e", "\n", "<",
      "/", "s", "c", "r", "i", "p", "t", ">">>

\* ViteReactRefresh::new(host, mode)
ViteReactRefresh(host, mode) == [host |-> host, mode |-> mode]

\* react_refresh without the test of the mode.
react_refresh_any_mode(self) == RefreshOpen \o self.host \o RefreshClose

\* ViteReactRefresh::react_refresh
react_refresh(self) ==
    IF self.mode = "Development"
    THEN RefreshOpen \o self.host \o RefreshClose
    ELSE <<>>

-----------------------------------------------------------------------------
(* Manifests                                                               *)

\* A Chunk as serde builds it from the fields resolution reads; the fields
\* it does not read take their defaults.
Chunk(file, css, is_entry, imports) ==
    [src |-> None, file |-> file, css |-> css, assets |-> <<>>,
     is_entry |-> is_entry, is_dynamic_entry |-> FALSE,
     imports |-> imports, dynamic_imports |-> <<>>]

\* The sequences over S of length at most n.
SeqsUpTo(S, n) == UNION {[1..k -> S] : k \in 0..n}

\* The orders in which iter() may yield the keys of a map.
Orders(keys) ==
    {o \in [1..Cardinality(keys) -> keys] :
        \A i, j \in 1..Cardinality(keys) : i # j => o[i] # o[j]}

\* The manifest keys of the generated manifests: one per branch of the
\* suffix test, and KeyM, which no generated manifest has.
KeyA == <<"a", ".", "j", "s">>     \* "a.js"
KeyB == <<"b", ".", "c", "s", "s">>    \* "b.css"
KeyC == <<"c", ".", "v", "u", "e">>    \* "c.vue"
KeyM == <<"m", ".", "t", "s">>     \* "m.ts"

GenKeys    == {KeyA, KeyB, KeyC}
GenTargets == GenKeys \cup {KeyM}

\* The built file of a generated chunk: "o/" and its key.
GenFile(key) == <<"o", "/">> \o key

CssP == <<"p", ".", "c", "s", "s">>    \* "p.css"
CssQ == <<"q", ".", "c", "s", "s">>    \* "q.css"

\* How the css lists of the three generated chunks are filled: none, one,
\* two out of order in one chunk, the same one in two chunks.
GenCss ==
    { [a |-> <<>>,           b |-> <<>>,     c |-> <<>>],
      [a |-> <<CssP>>,       b |-> <<>>,     c |-> <<>>],
      [a |-> <<CssQ, CssP>>, b |-> <<>>,     c |-> <<>>],
      [a |-> <<>>,           b |-> <<CssP>>, c |-> <<>>],
      [a |-> <<>>,           b |-> <<>>,     c |-> <<CssQ>>],
      [a |-> <<CssP>>,       b |-> <<CssP>>, c |-> <<>>],
      [a |-> <<CssQ>>,       b |-> <<>>,     c |-> <<CssP>>],
      [a |-> <<>>,           b |-> <<CssQ>>, c |-> <<CssQ, CssP>>] }

\* The import keys a generated manifest holds, over all its chunks.
MaxImports == 2

\* The imports lists of the three chunks, with MaxImports keys in all.
GenImports ==
    UNION { UNION { { [a |-> ia, b |-> ib, c |-> ic] :
                        ic \in SeqsUpTo(GenTargets,
                                        MaxImports - Len(ia) - Len(ib)) } :
                    ib \in SeqsUpTo(GenTargets, MaxImports - Len(ia)) } :
            ia \in SeqsUpTo(GenTargets, MaxImports) }

GenManifest(css, imports, ea, eb, ec) ==
    [entries |->
        (KeyA :> Chunk(GenFile(KeyA), css.a, ea, imports.a))
     @@ (KeyB :> Chunk(GenFile(KeyB), css.b, eb, imports.b))
     @@ (KeyC :> Chunk(GenFile(KeyC), css.c, ec, imports.c)),
     order |-> <<KeyA, KeyB, KeyC>>]

GenManifests ==
    { GenManifest(css, imports, ea, eb, ec) :
        css \in GenCss, imports \in GenImports,
        ea \in BOOLEAN, eb \in BOOLEAN, ec \in BOOLEAN }

\* test/sample_manifest.json, as far as resolution of views/foo.js reads it.
ViewsFooJs == <<"v", "i", "e", "w", "s", "/", "f", "o", "o", ".", "j", "s">>
SharedJs   == <<"_", "s", "h", "a", "r", "e", "d", ".", "j", "s">>
FooFile    == <<"a", "s", "s", "e", "t", "s", "/", "f", "o", "o", "-", "B", "R", "B", "m", "o", "G", "S", "9", ".", "j", "s">>
FooCss     == <<"a", "s", "s", "e", "t", "s", "/", "f", "o", "o", "-", "5", "U", "j", "P", "u", "W", "-", "k", ".", "c", "s", "s">>
SharedFile == <<"a", "s", "s", "e", "t", "s", "/", "s", "h", "a", "r", "e", "d", "-", "B", "7", "P", "I", "9", "2", "5", "R", ".", "j", "s">>
SharedCss  == <<"a", "s", "s", "e", "t", "s", "/", "s", "h", "a", "r", "e", "d", "-", "C", "h", "J", "_", "j", "-", "J", "J", ".", "c", "s", "s">>

SampleManifest ==
    [entries |->
        (ViewsFooJs :> Chunk(FooFile, <<FooCss>>, TRUE, <<SharedJs>>))
     @@ (SharedJs :> Chunk(SharedFile, <<SharedCss>>, FALSE, <<>>)),
     order |-> <<ViewsFooJs, SharedJs>>]

\* A diamond: the entry a.js imports b.css and c.vue, and b.css imports
\* c.vue; b.css and c.vue hold the same stylesheet.
DiamondManifest ==
    [entries |->
        (KeyA :> Chunk(GenFile(KeyA), <<>>, TRUE, <<KeyB, KeyC>>))
     @@ (KeyB :> Chunk(GenFile(KeyB), <<CssP>>, FALSE, <<KeyC>>))
     @@ (KeyC :> Chunk(GenFile(KeyC), <<CssP>>, FALSE, <<>>)),
     order |-> <<KeyA, KeyB, KeyC>>]

KeyJsx == <<"d", ".", "j", "s", "x">>    \* "d.jsx"
KeyTsx == <<"f", ".", "t", "s", "x">>    \* "f.tsx"

\* Entry chunks only, one key per suffix the code tests and one of another
\* suffix, each with a file (and c.vue with a src) whose suffix is not the
\* one of its key; a.js imports all the others.
SuffixManifest ==
    [entries |->
        (KeyA :> Chunk(GenFile(KeyB), <<>>, TRUE,
                       <<KeyJsx, KeyM, KeyTsx, KeyC, KeyB>>))
     @@ (KeyJsx :> Chunk(GenFile(KeyC), <<>>, TRUE, <<>>))
     @@ (KeyM :> Chunk(GenFile(KeyJsx), <<>>, TRUE, <<>>))
     @@ (KeyTsx :> Chunk(GenFile(KeyM), <<CssQ>>, TRUE, <<>>))
     @@ (KeyC :> [Chunk(GenFile(KeyA), <<CssP>>, TRUE, <<KeyB>>)
                    EXCEPT !.src = Some(KeyA)])
     @@ (KeyB :> Chunk(GenFile(KeyTsx), <<>>, TRUE, <<>>)),
     order |-> <<KeyA, KeyJsx, KeyM, KeyTsx, KeyC, KeyB>>]

Manifests ==
    GenManifests \cup {SampleManifest, DiamondManifest, SuffixManifest}

\* The entrypoints resolve_resources is called with.
Entrypoints == GenTargets \cup {ViewsFooJs, SharedJs, KeyJsx, KeyTsx}

-----------------------------------------------------------------------------
(* The resolution of one entrypoint of one manifest                        *)

NoCall == Outcome("none", <<>>, "none", "none", <<>>, 0, 0)

\* An environment variable: not set, set to a value that is no Unicode, or
\* set to a string.
Unset      == [kind |-> "NotPresent", value |-> ""]
NotUnicode == [kind |-> "NotUnicode", value |-> ""]
Var(value) == [kind |-> "set", value |-> value]

EnvNames == {"LOCO_ENV", "RAILS_ENV", "NODE_ENV"}

\* An environment in which none of the variables is set.
NoEnv == [name \in EnvNames |-> Unset]

NoVite == [host |-> <<>>, manifest_source |-> None,
           manifest_path |-> <<>>, mode |-> "Development"]

InitManifest ==
    /\ manifest \in Manifests
    /\ env = NoEnv
    /\ disk = <<>>
    /\ vite = NoVite
    /\ last = NoCall

\* let resources = manifest.resolve_resources(entrypoint);
ResolveResources(entrypoint) ==
    LET r == resolve_resources(manifest, entrypoint)
    IN  /\ last' = [Outcome("resolve_resources", <<entrypoint>>,
                             IF r.aborted THEN "aborted" ELSE "returned",
                             "none", <<>>, 0, 0)
                        EXCEPT !.resources = r.resources]
        /\ UNCHANGED <<manifest, disk, vite, env>>

NextManifest == \E entrypoint \in Entrypoints : ResolveResources(entrypoint)

SpecManifest == InitManifest /\ [][NextManifest]_vars

-----------------------------------------------------------------------------
(* The documents and configurations of the facade                          *)

JStrings(v) == JArray([i \in 1..Len(v) |-> JString(v[i])])

\* The manifest file the bundler writes for a manifest: for every key, in
\* the order given, an object with file, css, isEntry and imports.
ToJson(m) ==
    JObject([i \in 1..Len(m.order) |->
        LET chunk == m.entries[m.order[i]]
        IN  << m.order[i],
               JObject(<< <<"file", JString(chunk.file)>>,
                          <<"css", JStrings(chunk.css)>>,
                          <<"isEntry", JBool(chunk.is_entry)>>,
                          <<"imports", JStrings(chunk.imports)>> >>) >>])

\* test/sample_manifest.json: views/foo.js, an entry with a stylesheet that
\* imports _shared.js, no entry, with a stylesheet of its own.
SampleDoc ==
    JObject(<<
        << ViewsFooJs,
           JObject(<< <<"file", JString(FooFile)>>,
                      <<"name", JString(<<"f", "o", "o">>)>>,
                      <<"src", JString(ViewsFooJs)>>,
                      <<"isEntry", JBool(TRUE)>>,
                      <<"imports", JStrings(<<SharedJs>>)>>,
                      <<"css", JStrings(<<FooCss>>)>> >>) >>,
        << SharedJs,
           JObject(<< <<"file", JString(SharedFile)>>,
                      <<"name", JString(<<"s", "h", "a", "r", "e", "d">>)>>,
                      <<"css", JStrings(<<SharedCss>>)>> >>) >> >>)

\* Two entrypoints, a.js and b.css, that import the same chunk c.vue and
\* list the same stylesheet; b.css also imports a key the manifest lacks.
AppDoc ==
    JObject(<<
        << KeyA,
           JObject(<< <<"file", JString(GenFile(KeyA))>>,
                      <<"src", JNull>>,
                      <<"isEntry", JBool(TRUE)>>,
                      <<"isDynamicEntry", JBool(FALSE)>>,
                      <<"css", JStrings(<<CssQ, CssP>>)>>,
                      <<"assets", JStrings(<<>>)>>,
                      <<"dynamicImports", JStrings(<<KeyM>>)>>,
                      <<"imports", JStrings(<<KeyC>>)>> >>) >>,
        << KeyB,
           JObject(<< <<"file", JString(GenFile(KeyB))>>,
                      <<"isEntry", JBool(TRUE)>>,
                      <<"css", JStrings(<<CssP>>)>>,
                      <<"imports", JStrings(<<KeyM, KeyC>>)>> >>) >>,
        << KeyC,
           JObject(<< <<"file", JString(GenFile(KeyC))>>,
                      <<"css", JStrings(<<CssQ>>)>> >>) >> >>)

\* {}
EmptyDoc == JObject(<<>>)

\* A chunk without file.
NoFileDoc ==
    JObject(<< << KeyA,
                  JObject(<< <<"isEntry", JBool(TRUE)>>,
                             <<"css", JStrings(<<CssP>>)>> >>) >> >>)

\* A chunk whose isEntry is a string.
WrongTypeDoc ==
    JObject(<< << KeyA,
                  JObject(<< <<"file", JString(GenFile(KeyA))>>,
                             <<"isEntry", JString(<<"y", "e", "s">>)>> >>)
               >> >>)

\* The documents a configuration may name as its source.
Docs == {SampleDoc, AppDoc, EmptyDoc, NoFileDoc, WrongTypeDoc, NotJson}

\* The imports of the generated manifests the facade is given: none, one
\* chunk imported by both entries, one imported twice, an entry that
\* imports an entry, a key the manifest lacks, a chunk that imports itself.
FacadeImports ==
    { [a |-> <<>>,           b |-> <<>>,     c |-> <<>>],
      [a |-> <<KeyC>>,       b |-> <<KeyC>>, c |-> <<>>],
      [a |-> <<KeyC, KeyC>>, b |-> <<>>,     c |-> <<>>],
      [a |-> <<KeyB>>,       b |-> <<KeyC>>, c |-> <<>>],
      [a |-> <<KeyM, KeyC>>, b |-> <<>>,     c |-> <<>>],
      [a |-> <<KeyA>>,       b |-> <<>>,     c |-> <<>>] }

\* The generated manifests the facade is given as its source: a.js and
\* b.css are entries, c.vue is none.
FacadeCss == {css \in GenCss : css.a # <<>> /\ css.c = <<>>}

FacadeDocs ==
    { ToJson(GenManifest(css, imports, TRUE, TRUE, FALSE)) :
        css \in FacadeCss, imports \in FacadeImports }

\*   http://localhost:5173
DefaultHost ==
    <<"h", "t", "t", "p", ":", "/", "/", "l", "o", "c", "a", "l", "h", "o", "s", "t", ":", "5", "1", "7", "3">>
\*   //cdn
OtherHost == <<"/", "/", "c", "d", "n">>

Hosts == {DefaultHost, OtherHost}

DefaultPath == "dist/.vite/manifest.json"
OtherPath   == "build/manifest.json"

Paths == {DefaultPath, OtherPath}

\* What a path may name: nothing, something unreadable, a directory, a
\* file that holds a document.
FileStates ==
    {Absent, Denied, Directory}
        \cup {File(doc) : doc \in {SampleDoc, AppDoc, NoFileDoc, NotJson}}

NoFiles == [p \in Paths |-> Absent]

\* The file systems: at most one of the paths names something.
Disks ==
    { [NoFiles EXCEPT ![path] = state] : path \in Paths, state \in FileStates }

\* Vite::with_options(opts)
with_options(opts) ==
    [host |-> opts.host, manifest_source |-> opts.manifest_source,
     manifest_path |-> opts.manifest_path, mode |-> opts.mode]

Modes == {"Development", "Production"}

\* The entrypoint lists to_html is called with.
MaxEntrypoints == 2

FacadeEntrypoints == {ViewsFooJs, KeyA, KeyB}

\* The configurations: Development over some sources and file systems;
\* Production without a source over every file system, and with each source
\* over some; Production with a generated manifest as the source.
Configurations ==
    { <<with_options([host |-> host, manifest_source |-> source,
                      manifest_path |-> path, mode |-> "Development"]), fs>> :
        host \in Hosts, path \in Paths,
        source \in {None, Some(NotJson), Some(SampleDoc)},
        fs \in {NoFiles, [NoFiles EXCEPT ![DefaultPath] = File(SampleDoc)],
                [NoFiles EXCEPT ![DefaultPath] = File(NotJson)]} }
    \cup
    { <<with_options([host |-> DefaultHost, manifest_source |-> None,
                      manifest_path |-> path, mode |-> "Production"]), fs>> :
        path \in Paths, fs \in Disks }
    \cup
    { <<with_options([host |-> DefaultHost, manifest_source |-> Some(doc),
                      manifest_path |-> path, mode |-> "Production"]), fs>> :
        path \in Paths, doc \in Docs,
        fs \in {NoFiles, [NoFiles EXCEPT ![DefaultPath] = File(AppDoc)],
                [NoFiles EXCEPT ![DefaultPath] = Directory]} }
    \cup
    { <<with_options([host |-> OtherHost, manifest_source |-> Some(doc),
                      manifest_path |-> DefaultPath, mode |-> "Production"]),
        NoFiles>> :
        doc \in FacadeDocs }

Init ==
    /\ manifest = None
    /\ env = NoEnv
    /\ last = NoCall
    /\ \E configuration \in Configurations :
            /\ vite = configuration[1]
            /\ disk = configuration[2]

\* The document to_html would parse, if it gets to parse one.
ManifestDoc ==
    IF vite.manifest_source.some THEN vite.manifest_source.value
    ELSE disk[vite.manifest_path].content

\* let html = vite.to_html(entrypoints);
ToHtml(entrypoints) ==
    /\ \E order \in Orders(DocKeys(ManifestDoc)) :
            last' = to_html(vite, entrypoints, disk, order)
    /\ UNCHANGED <<manifest, disk, vite, env>>

\* let code = ViteReactRefresh::new(vite.host(), vite.mode()).react_refresh();
ReactRefresh ==
    /\ last' = Outcome("react_refresh", <<>>, "Ok", "none",
                       react_refresh(ViteReactRefresh(vite.host, vite.mode)),
                       0, 0)
    /\ UNCHANGED <<manifest, disk, vite, env>>

Next ==
    \/ \E entrypoints \in SeqsUpTo(FacadeEntrypoints, MaxEntrypoints) :
            ToHtml(entrypoints)
    \/ ReactRefresh

Spec == Init /\ [][Next]_vars

-----------------------------------------------------------------------------
(* Properties of resolve_resources, checked under SpecManifest             *)

Resolved == last.op = "resolve_resources"

Entrypoint == last.entrypoints[1]

IsKey(key) == key \in DOMAIN manifest.entries

\* C1: resolve_resources returns the empty sequence for an entrypoint that
\* is not a key of the manifest, and for the key of a chunk whose is_entry
\* is false, whatever the css, imports and file of that chunk.
C1_EmptyForAbsentOrNonEntry ==
    (/\ Resolved
     /\ \/ ~IsKey(Entrypoint)
        \/ ~manifest.entries[Entrypoint].is_entry)
        => /\ last.outcome = "returned"
           /\ last.resources = <<>>

\* A non-entry chunk with css and imports of its own was resolved.
C1_Witness ==
    /\ Resolved
    /\ IsKey(Entrypoint)
    /\ ~manifest.entries[Entrypoint].is_entry
    /\ manifest.entries[Entrypoint].css # <<>>
    /\ \E i \in 1..Len(manifest.entries[Entrypoint].imports) :
            IsKey(manifest.entries[Entrypoint].imports[i])
    /\ last.resources = <<>>

\* The place of a variant in the order stylesheets, modules, preload modules.
Class(r) ==
    IF r.variant = "Stylesheet" THEN 1
    ELSE IF r.variant = "Module" THEN 2 ELSE 3

\* Stylesheets before modules before preload modules, and the URIs of one
\* variant in lexicographic order.
Ordered(v) ==
    \A i, j \in 1..Len(v) :
        i < j => /\ Class(v[i]) <= Class(v[j])
                 /\ v[i].variant = v[j].variant => ~StrLess(v[j].uri, v[i].uri)

\* C2: the list resolve_resources returns is sorted: every Stylesheet before
\* every Module, every Module before every PreloadModule, and within one
\* variant in lexicographic order of the URI.
C2_ResultSorted ==
    (Resolved /\ last.outcome = "returned") => Ordered(last.resources)

\* A result with all three variants and two entries of one variant, which
\* the walk had collected in another order.
C2_Witness ==
    /\ Resolved
    /\ last.outcome = "returned"
    /\ {last.resources[i].variant : i \in 1..Len(last.resources)}
            = {"Stylesheet", "Module", "PreloadModule"}
    /\ \E i, j \in 1..Len(last.resources) :
            /\ i < j
            /\ last.resources[i].variant = last.resources[j].variant
            /\ last.resources[i].uri # last.resources[j].uri
    /\ ~Ordered(resolve_imports(manifest, <<>>, Entrypoint,
                                manifest.entries[Entrypoint], 1).resources)

\* The keys of the manifest that the imports of chunk key name.
ImportedKeys(key) ==
    {manifest.entries[key].imports[i] :
        i \in 1..Len(manifest.entries[key].imports)} \cap DOMAIN manifest.entries

\* The keys reached from the keys of S through one or more imports.
RECURSIVE ReachedFrom(_)
ReachedFrom(S) ==
    LET more == S \cup UNION {ImportedKeys(k) : k \in S}
    IN  IF more = S THEN S ELSE ReachedFrom(more)

\* No chunk of the manifest imports itself, directly or through others.
Acyclic ==
    \A key \in DOMAIN manifest.entries :
        key \notin ReachedFrom(ImportedKeys(key))

\* How often the walk from chunk key visits chunk target: the number of
\* import paths from key to target, each import counted as often as it is
\* listed. Defined for an acyclic manifest.
RECURSIVE Visits(_, _)
RECURSIVE VisitsThrough(_, _)
VisitsThrough(imports, target) ==
    IF imports = <<>> THEN 0
    ELSE (IF IsKey(imports[1]) THEN Visits(imports[1], target) ELSE 0)
            + VisitsThrough(Tail(imports), target)

Visits(key, target) ==
    (IF key = target THEN 1 ELSE 0)
        + VisitsThrough(manifest.entries[key].imports, target)

\* What one visit of chunk key contributes besides its css: a preload of its
\* file if it is no entry, else the stylesheet or module its key names.
OwnResources(key) ==
    LET chunk == manifest.entries[key]
    IN  IF ~chunk.is_entry THEN {PreloadModule(chunk.file)}
        ELSE IF ends_with(key, DotCss) THEN {Stylesheet(chunk.file)}
        ELSE IF \E ext \in {DotJs, DotJsx, DotTs, DotTsx} : ends_with(key, ext)
            THEN {Module(chunk.file)}
        ELSE {}

\* How often one visit of chunk key contributes resource r.
Contributes(key, r) ==
    Cardinality({i \in 1..Len(manifest.entries[key].css) :
                    Stylesheet(manifest.entries[key].css[i]) = r})
        + (IF r \in OwnResources(key) THEN 1 ELSE 0)

RECURSIVE SumOver(_, _, _)
SumOver(keys, root, r) ==
    IF keys = {} THEN 0
    ELSE LET key == CHOOSE k \in keys : TRUE
         IN  Visits(root, key) * Contributes(key, r)
                + SumOver(keys \ {key}, root, r)

\* How often the walk from root collects resource r.
Collected(root, r) == SumOver(DOMAIN manifest.entries, root, r)

\* Every resource a chunk of the manifest can contribute.
Contributable ==
    UNION { OwnResources(key)
                \cup {Stylesheet(manifest.entries[key].css[i]) :
                        i \in 1..Len(manifest.entries[key].css)} :
            key \in DOMAIN manifest.entries }

Occurrences(v, r) == Cardinality({i \in 1..Len(v) : v[i] = r})

\* C3: for an acyclic manifest and the key of an entry chunk the result is
\* the sorted list of what the walk collects: per visit of a chunk one
\* Stylesheet for each of its css strings, one PreloadModule(file) if it is
\* no entry, the Module or Stylesheet of its file if it is one, and nothing
\* else; for the sample manifest and views/foo.js it is the four resources
\* of the test.
C3_ResultIsSortedWalk ==
    (/\ Resolved
     /\ Acyclic
     /\ IsKey(Entrypoint)
     /\ manifest.entries[Entrypoint].is_entry)
        => /\ last.outcome = "returned"
           /\ Ordered(last.resources)
           /\ \A i \in 1..Len(last.resources) :
                    last.resources[i] \in Contributable
           /\ \A r \in Contributable :
                    Occurrences(last.resources, r) = Collected(Entrypoint, r)
           /\ (manifest = SampleManifest /\ Entrypoint = ViewsFooJs)
                => last.resources = << Stylesheet(FooCss),
                                       Stylesheet(SharedCss),
                                       Module(FooFile),
                                       PreloadModule(SharedFile) >>

\* A chunk reached over two import paths was visited twice, in a walk of
\* more than one level.
C3_Witness ==
    /\ Resolved
    /\ Acyclic
    /\ IsKey(Entrypoint)
    /\ manifest.entries[Entrypoint].is_entry
    /\ \E key \in DOMAIN manifest.entries :
            /\ key # Entrypoint
            /\ Visits(Entrypoint, key) = 2
            /\ \E r \in OwnResources(key) : Occurrences(last.resources, r) = 2

\* The sample manifest of the tests was resolved for views/foo.js.
C3_SampleWitness ==
    /\ Resolved
    /\ manifest = SampleManifest
    /\ Entrypoint = ViewsFooJs
    /\ Len(last.resources) = 4

-----------------------------------------------------------------------------
(* Properties of the facade, checked under Spec                            *)

Rendered == last.op = "to_html"

Production == vite.mode = "Production"

\* The lines of a text: its pieces between the line breaks; the empty text
\* has none.
Lines(text) ==
    LET breaks   == {i \in 1..Len(text) : text[i] = Newline}
        Break(k) == CHOOSE i \in breaks :
                        Cardinality({j \in breaks : j < i}) = k - 1
        count    == Cardinality(breaks) + 1
    IN  IF text = <<>> THEN <<>>
        ELSE [k \in 1..count |->
                SubSeq(text,
                       IF k = 1 THEN 1 ELSE Break(k - 1) + 1,
                       IF k = count THEN Len(text) ELSE Break(k) - 1)]

\* The manifest the configuration names, as one parse of it yields it.
Loaded ==
    LET order == CHOOSE o \in Orders(DocKeys(ManifestDoc)) : TRUE
    IN  IF vite.manifest_source.some
        THEN from_str(vite.manifest_source.value, order)
        ELSE IF disk[vite.manifest_path].kind \in {"file", "directory"}
            THEN from_reader(disk[vite.manifest_path], order)
        ELSE Err("Io")

\* What resolve_resources returns for the i-th entrypoint of the last call.
ResolvedFor(i) == resolve_resources(Loaded.value, last.entrypoints[i])

AllResolved ==
    UNION { {ResolvedFor(i).resources[k] :
                k \in 1..Len(ResolvedFor(i).resources)} :
            i \in 1..Len(last.entrypoints) }

RECURSIVE SumResolved(_, _)
SumResolved(i, r) ==
    IF i = 0 THEN 0
    ELSE Occurrences(ResolvedFor(i).resources, r) + SumResolved(i - 1, r)

\* C4: in Production mode with a parseable manifest, to_html renders the
\* multiset union of resolve_resources(e) over the entrypoints e of its
\* input, a resource as often as the entrypoints resolve it, in the order
\* of the resources, one tag per line.
C4_RendersEveryResolvedResource ==
    (/\ Rendered
     /\ Production
     /\ Loaded.ok
     /\ \A i \in 1..Len(last.entrypoints) : ~ResolvedFor(i).aborted)
        => LET tags == Lines(last.html)
           IN  /\ last.outcome = "Ok"
               /\ \A r \in AllResolved :
                    Occurrences(tags, resource_to_html(r))
                        = SumResolved(Len(last.entrypoints), r)
               /\ \A k \in 1..Len(tags) :
                    \E r \in AllResolved : tags[k] = resource_to_html(r)
               /\ Ordered([k \in 1..Len(tags) |->
                            CHOOSE r \in AllResolved :
                                tags[k] = resource_to_html(r)])

\* A resource that two entrypoints of the call resolve is rendered twice,
\* among tags of all three kinds.
C4_Witness ==
    /\ Rendered
    /\ Production
    /\ last.outcome = "Ok"
    /\ Len(last.entrypoints) = 2
    /\ last.entrypoints[1] # last.entrypoints[2]
    /\ \E r \in AllResolved :
            /\ Occurrences(ResolvedFor(1).resources, r) = 1
            /\ Occurrences(ResolvedFor(2).resources, r) = 1
            /\ Occurrences(Lines(last.html), resource_to_html(r)) = 2
    /\ {r.variant : r \in AllResolved}
            = {"Stylesheet", "Module", "PreloadModule"}

\* The tag of the dev server's client and the tag of an entrypoint.
ClientTag ==
    ScriptOpen \o vite.host \o ViteClient \o ScriptClose

ModuleTag(entrypoint) ==
    ScriptOpen \o vite.host \o <<"/">> \o entrypoint \o ScriptClose

\* C5: in Development mode to_html returns the client tag and then one
\* module tag {host}/{entrypoint} per entrypoint, in the order of the input
\* and as given: 1 + len(entrypoints) lines.
C5_DevelopmentTags ==
    (Rendered /\ ~Production)
        => /\ last.outcome = "Ok"
           /\ Len(Lines(last.html)) = 1 + Len(last.entrypoints)
           /\ Lines(last.html)[1] = ClientTag
           /\ \A i \in 1..Len(last.entrypoints) :
                    Lines(last.html)[i + 1] = ModuleTag(last.entrypoints[i])

\* A Development call with one entrypoint twice, under a configuration
\* whose source holds no manifest to look it up in.
C5_Witness ==
    /\ Rendered
    /\ ~Production
    /\ vite.manifest_source = Some(NotJson)
    /\ last.entrypoints = <<KeyB, KeyB>>
    /\ Len(Lines(last.html)) = 3

\* C6: in Development mode to_html reads no file and parses nothing, and it
\* returns Ok also when the source is no JSON or the manifest file is
\* missing.
C6_DevelopmentLeavesManifest ==
    (Rendered /\ ~Production)
        => /\ last.opens = 0
           /\ last.parses = 0
           /\ last.outcome = "Ok"

\* A Development call of a configuration whose manifest cannot be loaded.
C6_Witness ==
    /\ Rendered
    /\ ~Production
    /\ ~Loaded.ok
    /\ last.outcome = "Ok"

\* No file can be read at the manifest path: nothing is there, or what is
\* there cannot be opened or cannot be read.
Unreadable == disk[vite.manifest_path].kind \in {"absent", "denied", "directory"}

\* The document is no JSON or no manifest.
Malformed(doc) == ~from_str(doc, CHOOSE o \in Orders(DocKeys(doc)) : TRUE).ok

\* C7: in Production mode to_html fails with an I/O error when there is no
\* source and the manifest file is missing or unreadable, and with a parse
\* error when the manifest, from the source or from the file, is malformed
\* or does not match the schema; a failure carries no HTML.
C7_ProductionFailures ==
    (Rendered /\ Production)
        => /\ (~vite.manifest_source.some /\ Unreadable)
                => (last.outcome = "Err" /\ last.error = "Io")
           /\ (vite.manifest_source.some /\ Malformed(vite.manifest_source.value))
                => (last.outcome = "Err" /\ last.error = "Json")
           /\ (/\ ~vite.manifest_source.some
               /\ disk[vite.manifest_path].kind = "file"
               /\ Malformed(disk[vite.manifest_path].content))
                => (last.outcome = "Err" /\ last.error = "Json")
           /\ last.outcome = "Err" => last.html = <<>>

\* The other fields of a configuration kept, the source taken away and the
\* document put into the file at path.
FromFile(path, doc) ==
    to_html([vite EXCEPT !.manifest_source = None, !.manifest_path = path],
            last.entrypoints, [NoFiles EXCEPT ![path] = File(doc)],
            CHOOSE o \in Orders(DocKeys(doc)) : TRUE)

\* C8: in Production mode to_html with a source opens no file and returns
\* what it returns without the source and with the same JSON in the file at
\* manifest_path; without a source it opens one file per call.
C8_SourceLikeFile ==
    (Rendered /\ Production)
        => /\ vite.manifest_source.some
                => /\ last.opens = 0
                   /\ \A path \in Paths :
                        LET other == FromFile(path, vite.manifest_source.value)
                        IN  /\ other.opens = 1
                            /\ other.outcome = last.outcome
                            /\ other.error = last.error
                            /\ other.html = last.html
           /\ ~vite.manifest_source.some => last.opens = 1

\* A Production call with a source and no file at the manifest path that
\* rendered tags.
C8_Witness ==
    /\ Rendered
    /\ Production
    /\ vite.manifest_source.some
    /\ disk[vite.manifest_path].kind = "absent"
    /\ last.outcome = "Ok"
    /\ last.html # <<>>

\* The script block of the tests (tera.rs, lines 152-158), line by line,
\* for a host.
RefreshBlock(host) ==
    << <<"<", "s", "c", "r", "i", "p", "t", " ", "t", "y", "p", "e", "=",
         "\"", "m", "o", "d", "u", "l", "e", "\"", ">">>,
       <<"i", "m", "p", "o", "r", "t", " ", "R", "e", "f", "r", "e", "s",
         "h", "R", "u", "n", "t", "i", "m", "e", " ", "f", "r", "o", "m",
         " ", "\"">>
            \o host
            \o <<"/", "@", "r", "e", "a", "c", "t", "-", "r", "e", "f",
                 "r", "e", "s", "h", "\"">>,
       <<"R", "e", "f", "r", "e", "s", "h", "R", "u", "n", "t", "i", "m",
         "e", ".", "i", "n", "j", "e", "c", "t", "I", "n", "t", "o", "G",
         "l", "o", "b", "a", "l", "H", "o", "o", "k", "(", "w", "i", "n",
         "d", "o", "w", ")">>,
       <<"w", "i", "n", "d", "o", "w", ".", "$", "R", "e", "f", "r", "e",
         "s", "h", "R", "e", "g", "$", " ", "=", " ", "(", ")", " ", "=",
         ">", " ", "{", "}">>,
       <<"w", "i", "n", "d", "o", "w", ".", "$", "R", "e", "f", "r", "e",
         "s", "h", "S", "i", "g", "$", " ", "=", " ", "(", ")", " ", "=",
         ">", " ", "(", "t", "y", "p", "e", ")", " ", "=", ">", " ", "t",
         "y", "p", "e">>,
       <<"w", "i", "n", "d", "o", "w", ".", "_", "_", "v", "i", "t", "e",
         "_", "p", "l", "u", "g", "i", "n", "_", "r", "e", "a", "c", "t",
         "_", "p", "r", "e", "a", "m", "b", "l", "e", "_", "i", "n", "s",
         "t", "a", "l", "l", "e", "d", "_", "_", " ", "=", " ", "t", "r",
         "u", "e">>,
       <<"<", "/", "s", "c", "r", "i", "p", "t", ">">> >>

\* C9: react_refresh returns the empty string in Production mode and, in
\* Development mode, the script block with the host put in, seven lines:
\* the opening tag, the five lines of the script, the closing tag; nothing
\* but host and mode enters the result.
C9_ReactRefresh ==
    last.op = "react_refresh"
        => /\ Production => last.html = <<>>
           /\ ~Production
                => /\ Lines(last.html) = RefreshBlock(vite.host)
                   /\ Len(Lines(last.html)) = 7

\* C9 as the specification words it: the block returned in Development
\* mode has five lines.
C9_FiveLineBlock ==
    last.op = "react_refresh"
        => /\ Production => last.html = <<>>
           /\ ~Production
                => /\ \E i \in 1..Len(last.html) :
                        SubSeq(last.html, i, i + Len(vite.host) - 1) = vite.host
                   /\ Len(Lines(last.html)) = 5

\* The block was returned for a host other than the default one.
C9_Witness ==
    /\ last.op = "react_refresh"
    /\ ~Production
    /\ vite.host = OtherHost
    /\ last.html # <<>>

\* C10: resolution is deterministic. A call of to_html in Production mode
\* returns what it returns for any order in which the map of the manifest
\* could yield its keys, and what the call before it returned for the same
\* entrypoints; resolve_resources returns one list for an entrypoint
\* whatever that order is.
C10_Deterministic ==
    /\ [](  (Rendered /\ Production)
            => \A order \in Orders(DocKeys(ManifestDoc)) :
                /\ last = to_html(vite, last.entrypoints, disk, order)
                /\ Loaded.ok
                    => \A i \in 1..Len(last.entrypoints) :
                        resolve_resources(
                            [Loaded.value EXCEPT !.order = order],
                            last.entrypoints[i])
                        = ResolvedFor(i) )
    /\ [][ (/\ Rendered
            /\ last'.op = "to_html"
            /\ last'.entrypoints = last.entrypoints) => last' = last ]_vars

\* A Production call rendered tags from a manifest of three chunks, whose
\* map has six orders.
C10_Witness ==
    /\ Rendered
    /\ Production
    /\ last.outcome = "Ok"
    /\ Cardinality(DocKeys(ManifestDoc)) = 3
    /\ Len(Lines(last.html)) > 3

-----------------------------------------------------------------------------
(* Further properties of the resolution, checked under SpecManifest        *)

\* C11: the list resolve_resources returns holds no resource twice, also
\* when a chunk is reached over two import paths, when a chunk lists one
\* import key twice, or when two visited chunks list one css path.
C11_NoResourceTwice ==
    (Resolved /\ last.outcome = "returned")
        => \A i, j \in 1..Len(last.resources) :
                i # j => last.resources[i] # last.resources[j]

-----------------------------------------------------------------------------
(* The rendering of one resource (resource.rs)                             *)

\* The characters of the URIs rendered: a letter and the three characters
\* an HTML attribute value would have escaped.
UriChars == {"a", "&", "<", "\""}

MaxUri == 3

Uris == SeqsUpTo(UriChars, MaxUri)

Resources ==
    {Stylesheet(uri) : uri \in Uris} \cup {Module(uri) : uri \in Uris}
        \cup {PreloadModule(uri) : uri \in Uris}

InitResource ==
    /\ manifest = None
    /\ env = NoEnv
    /\ disk = <<>>
    /\ vite = NoVite
    /\ last = NoCall

\* let html = resource.to_html();
RenderResource(r) ==
    /\ last' = [Outcome("resource_to_html", <<>>, "returned", "none",
                        resource_to_html(r), 0, 0)
                    EXCEPT !.resources = <<r>>]
    /\ UNCHANGED <<manifest, disk, vite, env>>

NextResource == \E r \in Resources : RenderResource(r)

SpecResource == InitResource /\ [][NextResource]_vars

\* The templates as the specification writes them, {uri} one element.
StylesheetTemplate ==
    <<"<", "l", "i", "n", "k", " ", "r", "e", "l", "=", "\"", "s", "t",
      "y", "l", "e", "s", "h", "e", "e", "t", "\"", " ", "h", "r", "e",
      "f", "=", "\"", "{uri}", "\"", " ", "/", ">">>

ModuleTemplate ==
    <<"<", "s", "c", "r", "i", "p", "t", " ", "t", "y", "p", "e", "=",
      "\"", "m", "o", "d", "u", "l", "e", "\"", " ", "s", "r", "c", "=",
      "\"", "{uri}", "\"", ">", "<", "/", "s", "c", "r", "i", "p", "t",
      ">">>

PreloadModuleTemplate ==
    <<"<", "l", "i", "n", "k", " ", "r", "e", "l", "=", "\"", "m", "o",
      "d", "u", "l", "e", "p", "r", "e", "l", "o", "a", "d", "\"", " ",
      "h", "r", "e", "f", "=", "\"", "{uri}", "\"", " ", "/", ">">>

\* A template with uri in the place of {uri}.
Fill(template, uri) ==
    LET k == CHOOSE i \in 1..Len(template) : template[i] = "{uri}"
    IN  SubSeq(template, 1, k - 1) \o uri \o SubSeq(template, k + 1,
                                                    Len(template))

TemplateOf(r) ==
    CASE r.variant = "Stylesheet"    -> StylesheetTemplate
      [] r.variant = "Module"        -> ModuleTemplate
      [] r.variant = "PreloadModule" -> PreloadModuleTemplate

RenderedResource == last.op = "resource_to_html"

\* C12: Resource.to_html gives the template of the variant with the uri put
\* in unchanged, and no other resource renders to the same tag.
C12_TemplatePerVariant ==
    RenderedResource
        => /\ last.html = Fill(TemplateOf(last.resources[1]),
                               last.resources[1].uri)
           /\ \A r \in Resources :
                r # last.resources[1] => resource_to_html(r) # last.html

\* A resource was rendered whose uri holds a double quote, an ampersand
\* and an angle bracket.
C12_Witness ==
    /\ RenderedResource
    /\ {last.resources[1].uri[i] : i \in 1..Len(last.resources[1].uri)}
            = {"&", "<", "\""}
    /\ last.html # <<>>

-----------------------------------------------------------------------------
(* Cycles, absent imports and the entry of a chunk, under SpecManifest      *)

\* The chunks the walk from the entrypoint visits.
Walked == ReachedFrom({Entrypoint})

\* The call walks: the entrypoint is the key of an entry chunk.
Walks == Resolved /\ IsKey(Entrypoint) /\ manifest.entries[Entrypoint].is_entry

\* A chunk the walk visits imports itself, directly or through others.
CycleReached ==
    \E key \in Walked : key \in ReachedFrom(ImportedKeys(key))

\* C13: when an import cycle is reachable from the entry chunk, the
\* recursion of resolve_imports does not end, whatever its depth, and the
\* call returns no result.
C13_CycleNeverReturns ==
    (Walks /\ CycleReached)
        => /\ last.outcome = "aborted"
           /\ last.resources = <<>>

\* The walk from an entry chunk ran into a cycle through two chunks that
\* hold stylesheets.
C13_Witness ==
    /\ Walks
    /\ last.outcome = "aborted"
    /\ \E key \in ImportedKeys(Entrypoint) :
            /\ key # Entrypoint
            /\ Entrypoint \in ImportedKeys(key)
            /\ manifest.entries[key].css # <<>>

\* A list of import keys without those the manifest lacks.
RECURSIVE Present(_)
Present(imports) ==
    IF imports = <<>> THEN <<>>
    ELSE (IF IsKey(imports[1]) THEN <<imports[1]>> ELSE <<>>)
            \o Present(Tail(imports))

\* The manifest with every import key it lacks taken out of the imports.
Stripped ==
    [manifest EXCEPT !.entries =
        [key \in DOMAIN manifest.entries |->
            [manifest.entries[key] EXCEPT !.imports = Present(@)]]]

\* A chunk the walk visits lists an import key the manifest lacks.
AbsentImportReached ==
    \E key \in Walked :
        Present(manifest.entries[key].imports) # manifest.entries[key].imports

\* C14: an import key the manifest lacks is skipped: the walk collects, in
\* the same order, what it collects when the key is not listed at all (the
\* imports after it and the entry of the chunk itself included), and the
\* call returns the same list, no error.
C14_AbsentImportSkipped ==
    (Walks /\ AbsentImportReached)
        => /\ resolve_imports(manifest, <<>>, Entrypoint,
                              manifest.entries[Entrypoint], 1)
                = resolve_imports(Stripped, <<>>, Entrypoint,
                                  Stripped.entries[Entrypoint], 1)
           /\ LET stripped == resolve_resources(Stripped, Entrypoint)
              IN  /\ last.resources = stripped.resources
                  /\ (last.outcome = "aborted") = stripped.aborted

\* The entry chunk lists an absent key and then a present one: the chunk
\* behind the present key and the entry chunk itself are in the result.
C14_Witness ==
    /\ Walks
    /\ last.outcome = "returned"
    /\ Len(manifest.entries[Entrypoint].imports) = 2
    /\ ~IsKey(manifest.entries[Entrypoint].imports[1])
    /\ IsKey(manifest.entries[Entrypoint].imports[2])
    /\ \E i \in 1..Len(last.resources) :
            last.resources[i] = PreloadModule(
                manifest.entries[manifest.entries[Entrypoint].imports[2]].file)
    /\ \E i \in 1..Len(last.resources) :
            last.resources[i] = Module(manifest.entries[Entrypoint].file)

\* The walk of chunk key alone: resources as resolve_imports leaves it when
\* called for the chunk with an empty list.
WalkOf(key) ==
    resolve_imports(manifest, <<>>, key, manifest.entries[key], 1).resources

\* What the walk of chunk key has collected when its css and its imports
\* are processed.
BeforeOwn(key) ==
    resolve_imports_loop(manifest,
        [i \in 1..Len(manifest.entries[key].css) |->
            Stylesheet(manifest.entries[key].css[i])],
        manifest.entries[key].imports, 1).resources

\* C15: a visit of a chunk that is no entry appends, after its css and its
\* imports, one PreloadModule of the chunk's own file and nothing else,
\* whatever the suffix of its key is; the result of the call holds it.
C15_NonEntryPreloads ==
    (Walks /\ last.outcome = "returned")
        => \A key \in Walked :
            ~manifest.entries[key].is_entry
                => /\ WalkOf(key)
                        = BeforeOwn(key)
                            \o <<PreloadModule(manifest.entries[key].file)>>
                   /\ Occurrences(last.resources,
                            PreloadModule(manifest.entries[key].file)) >= 1
                   /\ Occurrences(last.resources,
                                  Stylesheet(manifest.entries[key].file)) = 0
                   /\ Occurrences(last.resources,
                                  Module(manifest.entries[key].file))
                        = Collected(Entrypoint,
                                    Module(manifest.entries[key].file))

\* The walk visited b.css, no entry, with a stylesheet and an import of its
\* own: the result holds the PreloadModule of its file.
C15_Witness ==
    /\ Walks
    /\ last.outcome = "returned"
    /\ KeyB \in Walked
    /\ IsKey(KeyB)
    /\ ~manifest.entries[KeyB].is_entry
    /\ manifest.entries[KeyB].css # <<>>
    /\ ImportedKeys(KeyB) # {}
    /\ Occurrences(last.resources, PreloadModule(GenFile(KeyB))) = 1

\* The entry the code appends for an entry chunk, by the suffix of its key.
OwnEntry(key) ==
    IF ends_with(key, DotCss)
    THEN <<Stylesheet(manifest.entries[key].file)>>
    ELSE IF \E suffix \in {DotJs, DotJsx, DotTs, DotTsx} : ends_with(key, suffix)
    THEN <<Module(manifest.entries[key].file)>>
    ELSE <<>>

\* C16: a visit of an entry chunk, the root or an imported one, appends
\* after its css and its imports the entry its manifest key selects:
\* Stylesheet(file) for .css, Module(file) for .js, .jsx, .ts and .tsx,
\* nothing for another suffix, and never a PreloadModule; file and src do
\* not enter the choice, and the result of the call holds the entry.
C16_EntryByKeySuffix ==
    (Walks /\ last.outcome = "returned")
        => /\ \A key \in Walked :
                manifest.entries[key].is_entry
                    => /\ WalkOf(key) = BeforeOwn(key) \o OwnEntry(key)
                       /\ \A i \in 1..Len(OwnEntry(key)) :
                            Occurrences(last.resources, OwnEntry(key)[i]) >= 1
           /\ Occurrences(last.resources,
                          PreloadModule(manifest.entries[Entrypoint].file))
                = Collected(Entrypoint,
                            PreloadModule(manifest.entries[Entrypoint].file))

\* The manifest whose files and keys differ in their suffixes was resolved
\* for a.js: a Module for the keys in .js, .jsx, .ts and .tsx, a Stylesheet
\* for b.css, the stylesheet of c.vue and nothing for c.vue itself.
C16_Witness ==
    /\ Walks
    /\ manifest = SuffixManifest
    /\ Entrypoint = KeyA
    /\ last.resources
        = << Stylesheet(GenFile(KeyTsx)), Stylesheet(GenFile(KeyTsx)),
             Stylesheet(CssP), Stylesheet(CssQ),
             Module(GenFile(KeyB)), Module(GenFile(KeyC)),
             Module(GenFile(KeyJsx)), Module(GenFile(KeyM)) >>

-----------------------------------------------------------------------------
(* The options and the inference of the mode (vite.rs, lines 14-89)        *)

\* std::env::var: the value of a variable that is set to a Unicode string,
\* an error for one that is not set or not Unicode.
env_var(environment, name) ==
    IF environment[name].kind = "set" THEN Ok(environment[name].value)
    ELSE Err(environment[name].kind)

\* Result::or_else and Result::unwrap_or
or_else(result, other) == IF result.ok THEN result ELSE other

unwrap_or(result, default) == IF result.ok THEN result.value ELSE default

\* ViteOptions::guess_mode with the environment it reads.
guess_mode(self, environment) ==
    LET mode == unwrap_or(
                    or_else(or_else(env_var(environment, "LOCO_ENV"),
                                    env_var(environment, "RAILS_ENV")),
                            env_var(environment, "NODE_ENV")),
                    "development")
    IN  [self EXCEPT !.mode = IF mode = "production" THEN "Production"
                              ELSE "Development"]

\* ViteOptions::default
ViteOptions_default(environment) ==
    guess_mode([host |-> DefaultHost, manifest_source |-> None,
                manifest_path |-> DefaultPath, mode |-> "Development"],
               environment)

\* The builder methods host, source, manifest_path and mode.
host(self, value) == [self EXCEPT !.host = value]

source(self, value) == [self EXCEPT !.manifest_source = value]

manifest_path(self, value) == [self EXCEPT !.manifest_path = value]

mode(self, value) == [self EXCEPT !.mode = value]

\* The values a variable of the environment holds.
EnvValues ==
    {Unset, NotUnicode, Var("production"), Var("development"),
     Var("Production"), Var("")}

\* The options are the value of vite; the environment is the one the
\* process was started with.
InitOptions ==
    /\ manifest = None
    /\ disk = <<>>
    /\ env \in [EnvNames -> EnvValues]
    /\ vite = NoVite
    /\ last = NoCall

Called(op, argument) == Outcome(op, <<>>, argument, "none", <<>>, 0, 0)

\* let opts = ViteOptions::default();
Default ==
    /\ vite' = ViteOptions_default(env)
    /\ last' = Called("default", "none")
    /\ UNCHANGED <<manifest, disk, env>>

\* let opts = opts.guess_mode();
GuessMode ==
    /\ last.op # "none"
    /\ vite' = guess_mode(vite, env)
    /\ last' = Called("guess_mode", "none")
    /\ UNCHANGED <<manifest, disk, env>>

\* let opts = opts.mode(value);
SetMode(value) ==
    /\ last.op # "none"
    /\ vite' = mode(vite, value)
    /\ last' = Called("mode", value)
    /\ UNCHANGED <<manifest, disk, env>>

\* let opts = opts.host(value);
SetHost(value) ==
    /\ last.op # "none"
    /\ vite' = host(vite, value)
    /\ last' = Called("host", "none")
    /\ UNCHANGED <<manifest, disk, env>>

\* let opts = opts.source(value);
SetSource(value) ==
    /\ last.op # "none"
    /\ vite' = source(vite, value)
    /\ last' = Called("source", "none")
    /\ UNCHANGED <<manifest, disk, env>>

\* let opts = opts.manifest_path(value);
SetManifestPath(value) ==
    /\ last.op # "none"
    /\ vite' = manifest_path(vite, value)
    /\ last' = Called("manifest_path", "none")
    /\ UNCHANGED <<manifest, disk, env>>

NextOptions ==
    \/ Default
    \/ GuessMode
    \/ \E value \in Modes : SetMode(value)
    \/ \E value \in Hosts : SetHost(value)
    \/ \E value \in {None, Some(NotJson)} : SetSource(value)
    \/ \E value \in Paths : SetManifestPath(value)

SpecOptions == InitOptions /\ [][NextOptions]_vars

Inferred == last.op \in {"default", "guess_mode"}

\* C17: the inferred mode is Production when one of LOCO_ENV, RAILS_ENV and
\* NODE_ENV holds "production", and Development when they are absent or
\* hold other values; a call of mode(...) after the inference sets the
\* mode it is given.
C17_ModeInference ==
    /\ Inferred
        => (vite.mode = "Production"
                <=> \E name \in EnvNames : env[name] = Var("production"))
    /\ last.op = "mode" => vite.mode = last.outcome

-----------------------------------------------------------------------------
(* The bindings for the template engines (integrations/tera.rs, lines      *)
(* 29-55, and integrations/minijinja.rs, lines 31-54)                      *)

\* The value of a call of the function vite of a template: Ok with the
\* HTML, the error the engine is given, or the panic of unwrap() on the
\* error of to_html.
Bound(op, rendered) ==
    IF rendered.outcome = "Err"
    THEN [rendered EXCEPT !.op = op, !.outcome = "panic"]
    ELSE [rendered EXCEPT !.op = op]

ArgumentError(op) == Outcome(op, <<>>, "Err", "argument", <<>>, 0, 0)

\* <Vite as tera::Function>::call; args.resources is the argument of that
\* name, if one is given.
tera_call(self, args, fs, order) ==
    IF ~args.resources.some THEN ArgumentError("tera::call")
    ELSE LET resources == args.resources.value
         IN  IF resources.t = "array"
             THEN IF de_vec_string(resources).ok
                  THEN Bound("tera::call",
                             to_html(self, de_vec_string(resources).value,
                                     fs, order))
                  ELSE ArgumentError("tera::call")
             ELSE IF resources.t = "string"
             THEN Bound("tera::call",
                        to_html(self, <<resources.v>>, fs, order))
             ELSE ArgumentError("tera::call")

\* <Vite as minijinja::Object>::call; kwargs.get::<Vec<String>> fails for
\* an argument that is missing, no sequence, or a sequence with an item
\* that is no string. (No call of the model passes a string there.)
minijinja_call(self, args, fs, order) ==
    IF ~args.resources.some THEN ArgumentError("minijinja::call")
    ELSE IF ~de_vec_string(args.resources.value).ok
    THEN ArgumentError("minijinja::call")
    ELSE Bound("minijinja::call",
               to_html(self, de_vec_string(args.resources.value).value,
                       fs, order))

\* The arguments of the calls: none, null, a string, arrays of strings, an
\* array with a null.
TeraArgs ==
    {[resources |-> None], [resources |-> Some(JNull)],
     [resources |-> Some(JString(KeyA))],
     [resources |-> Some(JStrings(<<>>))],
     [resources |-> Some(JStrings(<<KeyA>>))],
     [resources |-> Some(JStrings(<<KeyB, KeyA>>))],
     [resources |-> Some(JArray(<<JString(KeyA), JNull>>))]}

MinijinjaArgs == {args \in TeraArgs : args.resources # Some(JString(KeyA))}

\* {{ vite(resources=...) }} in a tera template
TeraCall(args) ==
    /\ \E order \in Orders(DocKeys(ManifestDoc)) :
            last' = tera_call(vite, args, disk, order)
    /\ UNCHANGED <<manifest, disk, vite, env>>

\* {{ vite(resources=...) }} in a minijinja template
MinijinjaCall(args) ==
    /\ \E order \in Orders(DocKeys(ManifestDoc)) :
            last' = minijinja_call(vite, args, disk, order)
    /\ UNCHANGED <<manifest, disk, vite, env>>

NextBindings ==
    \/ \E args \in TeraArgs : TeraCall(args)
    \/ \E args \in MinijinjaArgs : MinijinjaCall(args)

SpecBindings == Init /\ [][NextBindings]_vars

\* C18: a call through a binding in Production mode whose manifest cannot
\* be read or parsed gives the template engine a failure result, as the
\* errors of the argument do; it does not panic.
C18_BindingSurfacesFailure ==
    (/\ last.op \in {"tera::call", "minijinja::call"}
     /\ Production
     /\ ~Loaded.ok)
        => /\ last.outcome = "Err"
           /\ last.outcome # "panic"

-----------------------------------------------------------------------------
(* The order of the entrypoints, under Spec                                *)

\* The lists with the items of a list in every order.
Reordered(v) ==
    {[i \in 1..Len(v) |-> v[p[i]]] : p \in Orders(1..Len(v))}

\* C19: in Production mode to_html returns for every permutation of its
\* entrypoints what it returns for the list itself; in Development mode
\* the module tags follow the order of the list given, so that another
\* order of two entrypoints gives another text.
C19_EntrypointOrder ==
    Rendered
        => \A entrypoints \in Reordered(last.entrypoints) :
            \A order \in Orders(DocKeys(ManifestDoc)) :
                LET other == to_html(vite, entrypoints, disk, order)
                IN  /\ Production
                        => /\ other.outcome = last.outcome
                           /\ other.error = last.error
                           /\ other.html = last.html
                    /\ ~Production
                        => /\ \A i \in 1..Len(entrypoints) :
                                Lines(other.html)[i + 1]
                                    = ModuleTag(entrypoints[i])
                           /\ entrypoints # last.entrypoints
                                => other.html # last.html

\* A Production call with two entrypoints that resolve to resources of
\* which those of the first do not all precede those of the second.
C19_Witness ==
    /\ Rendered
    /\ Production
    /\ last.outcome = "Ok"
    /\ Len(last.entrypoints) = 2
    /\ last.entrypoints[1] # last.entrypoints[2]
    /\ ResolvedFor(1).resources # <<>>
    /\ ResolvedFor(2).resources # <<>>
    /\ ~Ordered(ResolvedFor(1).resources \o ResolvedFor(2).resources)
    /\ ~Ordered(ResolvedFor(2).resources \o ResolvedFor(1).resources)

\* A Development call with two entrypoints.
C19_DevelopmentWitness ==
    /\ Rendered
    /\ ~Production
    /\ Len(last.entrypoints) = 2
    /\ last.entrypoints[1] # last.entrypoints[2]

-----------------------------------------------------------------------------
(* Termination of the resolution, under SpecManifest                       *)

\* Some chunk of the manifest imports itself, directly or through others.
SomeCycle == ~Acyclic

\* C20: resolve_resources returns a list whenever no import cycle is
\* reachable from the entrypoint: when the walk from an entry chunk meets
\* none, and when the entrypoint is absent or no entry, whatever cycles
\* the manifest holds elsewhere.
C20_ReturnsWithoutReachedCycle ==
    (Resolved /\ ~(Walks /\ CycleReached)) => last.outcome = "returned"

\* The walk from an entry chunk returned resources of an imported chunk
\* while the manifest holds a cycle the walk does not reach.
C20_Witness ==
    /\ Walks
    /\ SomeCycle
    /\ ~CycleReached
    /\ ImportedKeys(Entrypoint) # {}
    /\ last.outcome = "returned"
    /\ Len(last.resources) > 1

\* The call for a chunk that is no entry and lies on a cycle returned the
\* empty list.
C20_NonEntryWitness ==
    /\ Resolved
    /\ IsKey(Entrypoint)
    /\ ~manifest.entries[Entrypoint].is_entry
    /\ Entrypoint \in ReachedFrom(ImportedKeys(Entrypoint))
    /\ last.outcome = "returned"
    /\ last.resources = <<>>

====
